---- MODULE Spec2Model ----
(***************************************************************************)
(* cs-config-manager: the inclusion Walker (get_included_files), the       *)
(* Compiler (compile / compile_and_write) and the gist synchronisation     *)
(* (push_config / pull_config).                                            *)
(*                                                                         *)
(* Text is modelled byte by byte: a string is a sequence of one-character  *)
(* strings, a path is such a string relative to cfg_dir, the local tree is *)
(* a function from the paths of the existing files to their contents, and  *)
(* the gist is a function from document names to contents.                 *)
(***************************************************************************)
EXTENDS Naturals, Sequences, FiniteSets, TLC

VARIABLES
    fs,           \* local files under cfg_dir: relative path -> contents
    dirs,         \* sub-directories of cfg_dir that exist
    remote,       \* the gist: document name -> content
    cmd,          \* the command in progress: "idle", "compile", "walk", "push", "pull"
    pc,           \* position inside the command
    dry_run,      \* options.dry_run of the command
    update_only,  \* options.update_only of the pull
    root_file,    \* options.root_file of the push
    outcome,      \* how the last command ended: "none", "ok" or the failure
    included,     \* included_files of the push (the Walker's output)
    fetched,      \* the gist as returned by gists().get()
    batch,        \* operations put on the update builder, in order
    commits,      \* update requests the remote store applied during this push
    tasks,        \* pull: document name -> state of its future in join_all
    compiled,     \* text compile returned
    report,       \* what the command logged (counts, sizes, paths)
    fs0,          \* history: fs when the command started
    remote0,      \* history: remote when the command started
    lastPushed,   \* history: Walker output of the latest successful push
    prevPushed,   \* history: Walker output of the successful push before it
    ncmds         \* commands run so far

vars == <<fs, dirs, remote, cmd, pc, dry_run, update_only, root_file, outcome, included,
          fetched, batch, commits, tasks, compiled, report, fs0, remote0,
          lastPushed, prevPushed, ncmds>>

(***************************************************************************)
(* Bounds of the model.                                                    *)
(***************************************************************************)
\* Nested calls the stack holds; deeper recursion ends in a stack overflow.
MaxDepth == 4
\* Lines of a generated config file.
MaxLines == 2
\* Commands run one after the other.
MaxCmds == 2

(***************************************************************************)
(* Strings.                                                                *)
(***************************************************************************)
NL == "\n"
CR == "\r"
QUOTE == "\""
SLASH == "/"
EmptyStr == <<>>

\* ".cfg", appended to the name an exec line gives
CFG_EXT == <<".", "c", "f", "g">>
\* the text an include line starts with: exec "
EXEC_PREFIX == <<"e", "x", "e", "c", " ", QUOTE>>
\* "// ", in front of the relative path in a document's first line
HEADER_MARKER == <<"/", "/", " ">>
README_FILE == <<"R", "E", "A", "D", "M", "E", ".", "m", "d">>
COMPILED_FILE == <<"c", "o", "m", "p", "i", "l", "e", "d", ".", "c", "f", "g">>
\* chrono::Local::now().format("%Y-%m-%d %H:%M:%S")
Timestamp == <<"2", "0", "2", "4", "-", "0", "1", "-", "0", "1", " ",
               "0", "0", ":", "0", "0", ":", "0", "0">>
CompiledOn == <<"C", "o", "m", "p", "i", "l", "e", "d", " ", "o", "n", " ">>

\* position of the first c in s, 0 when there is none
IndexOf(s, c) ==
    LET at == {i \in 1..Len(s) : s[i] = c}
    IN IF at = {} THEN 0 ELSE CHOOSE i \in at : \A j \in at : i <= j

\* position of the last c in s, 0 when there is none
LastIndexOf(s, c) ==
    LET at == {i \in 1..Len(s) : s[i] = c}
    IN IF at = {} THEN 0 ELSE CHOOSE i \in at : \A j \in at : j <= i

StartsWith(s, p) == Len(s) >= Len(p) /\ SubSeq(s, 1, Len(p)) = p

\* s[n..] of Rust, n counted from 0
SliceFrom(s, n) == SubSeq(s, n + 1, Len(s))

\* str::lines: split at "\n" or "\r\n"; the final line may lack its ending
RECURSIVE lines(_)
lines(s) ==
    IF s = EmptyStr THEN <<>>
    ELSE LET i == IndexOf(s, NL) IN
         IF i = 0 THEN <<s>>
         ELSE LET l == SubSeq(s, 1, i - 1)
                  line == IF Len(l) > 0 /\ l[Len(l)] = CR
                          THEN SubSeq(l, 1, Len(l) - 1) ELSE l
              IN <<line>> \o lines(SliceFrom(s, i))

\* [String]::join(sep)
RECURSIVE join(_, _)
join(strs, sep) ==
    IF Len(strs) = 0 THEN EmptyStr
    ELSE IF Len(strs) = 1 THEN strs[1]
    ELSE strs[1] \o sep \o join(Tail(strs), sep)

RECURSIVE Concat(_)
Concat(seqs) == IF Len(seqs) = 0 THEN <<>> ELSE seqs[1] \o Concat(Tail(seqs))

\* group 1 of ^exec "([^"]+)"|(.+) on one line; the empty string when the
\* group did not take part in the match
exec_capture(line) ==
    IF ~StartsWith(line, EXEC_PREFIX) THEN EmptyStr
    ELSE LET rest == SliceFrom(line, Len(EXEC_PREFIX))
             q == IndexOf(rest, QUOTE)
         IN IF q >= 2 THEN SubSeq(rest, 1, q - 1) ELSE EmptyStr

\* the names of the include lines of a text, top to bottom
exec_names(text) ==
    LET ls == lines(text) IN
    SelectSeq([i \in 1..Len(ls) |-> exec_capture(ls[i])], LAMBDA n : n # EmptyStr)

\* cfg_dir_path.join(name + ".cfg"), relative to cfg_dir
get_exec_file_path(name) == name \o CFG_EXT

\* Path::file_name: the last component
get_file_name(path) == SliceFrom(path, LastIndexOf(path, SLASH))

\* Path::parent: everything before the last component
parent_dir(path) ==
    LET i == LastIndexOf(path, SLASH) IN
    IF i = 0 THEN EmptyStr ELSE SubSeq(path, 1, i - 1)

\* "// {relative path}\n{contents}"
get_formatted_content(f) ==
    HEADER_MARKER \o f.relative_file_path \o <<NL>> \o f.file_contents

\* "# Compiled on {timestamp}\n\n"
readme_content == <<"#", " ">> \o CompiledOn \o Timestamp \o <<NL, NL>>

(***************************************************************************)
(* The Walker.  A result is [err, files]; err is "none", "FileNotFound"    *)
(* (read_to_string's unwrap on a missing file) or "StackOverflow".         *)
(***************************************************************************)
Failed(e) == [err |-> e, files |-> <<>>]

RECURSIVE get_included_files(_, _, _)
RECURSIVE walk_children(_, _, _)

\* faulty variant: a name that comes again further down the file is passed over
RECURSIVE walk_children_once(_, _, _)
walk_children_once(tree, names, depth) ==
    IF Len(names) = 0 THEN [err |-> "none", files |-> <<>>]
    ELSE IF \E i \in 2..Len(names) : names[i] = names[1]
    THEN walk_children_once(tree, Tail(names), depth)
    ELSE LET first == get_included_files(tree, get_exec_file_path(names[1]), depth + 1) IN
         IF first.err # "none" THEN Failed(first.err)
         ELSE LET rest == walk_children_once(tree, Tail(names), depth) IN
              IF rest.err # "none" THEN Failed(rest.err)
              ELSE [err |-> "none", files |-> first.files \o rest.files]

\* the flat_map over the include lines: each child's whole output, in order
walk_children(tree, names, depth) ==
    IF Len(names) = 0 THEN [err |-> "none", files |-> <<>>]
    ELSE LET first == get_included_files(tree, get_exec_file_path(names[1]), depth + 1) IN
         IF first.err # "none" THEN Failed(first.err)
         ELSE LET rest == walk_children(tree, Tail(names), depth) IN
              IF rest.err # "none" THEN Failed(rest.err)
              ELSE [err |-> "none", files |-> first.files \o rest.files]

\* faulty variant: the file itself is chained after its children
get_included_files_children_first(tree, path, depth) ==
    IF depth > MaxDepth THEN Failed("StackOverflow")
    ELSE IF path \notin DOMAIN tree THEN Failed("FileNotFound")
    ELSE LET self == [relative_file_path |-> path, file_contents |-> tree[path]]
             sub == walk_children(tree, exec_names(tree[path]), depth)
         IN IF sub.err # "none" THEN Failed(sub.err)
            ELSE [err |-> "none", files |-> sub.files \o <<self>>]

get_included_files(tree, path, depth) ==
    IF depth > MaxDepth THEN Failed("StackOverflow")
    ELSE IF path \notin DOMAIN tree THEN Failed("FileNotFound")
    ELSE LET self == [relative_file_path |-> path, file_contents |-> tree[path]]
             sub == walk_children(tree, exec_names(tree[path]), depth)
         IN IF sub.err # "none" THEN Failed(sub.err)
            ELSE [err |-> "none", files |-> <<self>> \o sub.files]

(***************************************************************************)
(* The Compiler.  A result is [err, text].                                 *)
(***************************************************************************)
RECURSIVE compile(_, _, _)
RECURSIVE compile_lines(_, _, _)

\* the map over the lines: an include line becomes the child's compiled text
compile_lines(tree, ls, depth) ==
    IF Len(ls) = 0 THEN [err |-> "none", strs |-> <<>>]
    ELSE LET name == exec_capture(ls[1])
             first == IF name = EmptyStr THEN [err |-> "none", text |-> ls[1]]
                      ELSE compile(tree, get_exec_file_path(name), depth + 1)
         IN IF first.err # "none" THEN [err |-> first.err, strs |-> <<>>]
            ELSE LET rest == compile_lines(tree, Tail(ls), depth) IN
                 IF rest.err # "none" THEN [err |-> rest.err, strs |-> <<>>]
                 ELSE [err |-> "none", strs |-> <<first.text>> \o rest.strs]

\* faulty variant: the lines are joined without the "\n" between them
compile_joined_bare(tree, path, depth) ==
    IF depth > MaxDepth THEN [err |-> "StackOverflow", text |-> EmptyStr]
    ELSE IF path \notin DOMAIN tree THEN [err |-> "FileNotFound", text |-> EmptyStr]
    ELSE LET r == compile_lines(tree, lines(tree[path]), depth) IN
         IF r.err # "none" THEN [err |-> r.err, text |-> EmptyStr]
         ELSE [err |-> "none", text |-> join(r.strs, EmptyStr)]

compile(tree, path, depth) ==
    IF depth > MaxDepth THEN [err |-> "StackOverflow", text |-> EmptyStr]
    ELSE IF path \notin DOMAIN tree THEN [err |-> "FileNotFound", text |-> EmptyStr]
    ELSE LET r == compile_lines(tree, lines(tree[path]), depth) IN
         IF r.err # "none" THEN [err |-> r.err, text |-> EmptyStr]
         ELSE [err |-> "none", text |-> join(r.strs, <<NL>>)]

\* "// Compiled on {date}\n\n{compiled}"
compiled_document(text) ==
    <<"/", "/", " ">> \o CompiledOn \o Timestamp \o <<NL, NL>> \o text

(***************************************************************************)
(* Maps (the local tree, the gist).                                        *)
(***************************************************************************)
EmptyMap == [k \in {} |-> EmptyStr]
Put(m, k, v) == [x \in (DOMAIN m) \cup {k} |-> IF x = k THEN v ELSE m[x]]
Remove(m, ks) == [x \in (DOMAIN m) \ ks |-> m[x]]

(***************************************************************************)
(* Input trees.  The root file is a.cfg; it can include b.cfg and d/b.cfg, *)
(* which share the basename b.cfg.                                         *)
(***************************************************************************)
NameA == <<"a">>
NameB == <<"b">>
NameDB == <<"d", "/", "b">>
PathA == get_exec_file_path(NameA)
PathB == get_exec_file_path(NameB)
PathDB == get_exec_file_path(NameDB)
ROOT_FILE == PathA

ExecLine(name) == EXEC_PREFIX \o name \o <<QUOTE>>
Plain(c) == <<c>>

SeqsUpTo(S, n) == UNION {[1..k -> S] : k \in 0..n}

\* a text of the given lines: eol between the lines, and after the last one
\* when term is set
TextOf(ls, eol, term) == join(ls, eol) \o (IF term THEN eol ELSE EmptyStr)

EolStyles ==
    {[eol |-> <<NL>>, term |-> FALSE],
     [eol |-> <<NL>>, term |-> TRUE],
     [eol |-> <<CR, NL>>, term |-> TRUE]}

\* an optional file: Absent, or File(ls) for a file of the lines ls
Absent == <<>>
File(ls) == <<ls>>

\* optional files -> a tree
TreeOf(fa, fb, fdb, st) ==
    LET opt(p) == IF p = PathA THEN fa ELSE IF p = PathB THEN fb ELSE fdb
        present == {p \in {PathA, PathB, PathDB} : opt(p) # Absent}
    IN [p \in present |-> TextOf(opt(p)[1], st.eol, st.term)]

LinesA ==
    {File(ls) : ls \in SeqsUpTo({Plain("x"), ExecLine(NameA), ExecLine(NameB),
                                 ExecLine(NameDB)}, MaxLines)}
LinesB ==
    {File(ls) : ls \in SeqsUpTo({Plain("y"), ExecLine(NameDB)}, MaxLines)}
        \cup {Absent}
LinesDB == {File(<<>>), File(<<Plain("z")>>), File(<<ExecLine(NameB)>>), Absent}

CompileTrees ==
    {TreeOf(fa, fb, fdb, st) : fa \in LinesA, fb \in LinesB, fdb \in LinesDB, st \in EolStyles}

\* the sub-directories a tree needs
DirsOf(tree) == {parent_dir(p) : p \in DOMAIN tree} \ {EmptyStr}

(***************************************************************************)
(* Commands that run to completion without awaiting: compile and the walk. *)
(***************************************************************************)
\* compile_and_write(options) with root_file = a.cfg
compile_and_write(d) ==
    /\ cmd = "idle"
    /\ LET r == compile(fs, ROOT_FILE, 1)
           doc == compiled_document(r.text)
           output_path == IF parent_dir(ROOT_FILE) = EmptyStr THEN COMPILED_FILE
                          ELSE parent_dir(ROOT_FILE) \o <<SLASH>> \o COMPILED_FILE
       IN /\ outcome' = IF r.err = "none" THEN "ok" ELSE r.err
          /\ compiled' = IF r.err = "none" THEN doc ELSE EmptyStr
          /\ fs' = IF r.err = "none" /\ ~d THEN Put(fs, output_path, doc) ELSE fs
          /\ report' = IF r.err = "none"
                       THEN <<[bytes |-> Len(doc), path |-> output_path]>> ELSE <<>>
    /\ cmd' = "compile"
    /\ pc' = "done"
    /\ dry_run' = d
    /\ fs0' = fs
    /\ remote0' = remote
    /\ ncmds' = ncmds + 1
    /\ UNCHANGED <<root_file, dirs, remote, update_only, included, fetched, batch, commits,
                   tasks, lastPushed, prevPushed>>

\* get_included_files(cfg_dir, a.cfg) on its own
walk ==
    /\ cmd = "idle"
    /\ LET r == get_included_files(fs, ROOT_FILE, 1)
       IN /\ outcome' = IF r.err = "none" THEN "ok" ELSE r.err
          /\ included' = r.files
    /\ cmd' = "walk"
    /\ pc' = "done"
    /\ fs0' = fs
    /\ remote0' = remote
    /\ ncmds' = ncmds + 1
    /\ UNCHANGED <<root_file, fs, dirs, remote, dry_run, update_only, fetched, batch, commits,
                   tasks, compiled, report, lastPushed, prevPushed>>

InitCommon ==
    /\ cmd = "idle"
    /\ pc = "none"
    /\ dry_run = FALSE
    /\ update_only = FALSE
    /\ root_file = ROOT_FILE
    /\ outcome = "none"
    /\ included = <<>>
    /\ fetched = EmptyMap
    /\ batch = <<>>
    /\ commits = 0
    /\ tasks = EmptyMap
    /\ compiled = EmptyStr
    /\ report = <<>>
    /\ fs0 = fs
    /\ remote0 = remote
    /\ lastPushed = <<>>
    /\ prevPushed = <<>>
    /\ ncmds = 0

InitCompile ==
    /\ fs \in CompileTrees
    /\ dirs = DirsOf(fs)
    /\ remote = EmptyMap
    /\ InitCommon


(***************************************************************************)
(* push_config.  The code runs up to its first await in one step           *)
(* (push_start), continues when the gist arrives (push_fetch) and ends     *)
(* when the update request is answered (push_send).                        *)
(***************************************************************************)
\* a command can start: none is running and the budget is not used up
Quiet ==
    /\ pc \in {"none", "done"}
    /\ ncmds < MaxCmds

RECURSIVE SetToSeq(_)
SetToSeq(S) ==
    IF S = {} THEN <<>>
    ELSE LET x == CHOOSE y \in S : TRUE IN <<x>> \o SetToSeq(S \ {x})

RECURSIVE SumLen(_)
SumLen(files) ==
    IF Len(files) = 0 THEN 0 ELSE Len(files[1].file_contents) + SumLen(Tail(files))

\* included_files.len() + 1
num_files(files) == Len(files) + 1

\* the bytes of the included files and of the readme
total_bytes(files) == SumLen(files) + Len(readme_content)

\* the names of the current gist kept by the filter of deleted_files_names
deleted_files_names(current, files) ==
    {n \in DOMAIN current :
        \E i \in 1..Len(files) : get_file_name(files[i].relative_file_path) = n}

\* faulty variant: the included files are put on the builder last to first
build_batch_reversed(current, files) ==
    LET dels == SetToSeq(deleted_files_names(current, files))
    IN [i \in 1..Len(dels) |-> [kind |-> "delete", name |-> dels[i], content |-> EmptyStr]]
       \o <<[kind |-> "upsert", name |-> README_FILE, content |-> readme_content]>>
       \o [i \in 1..Len(files) |->
              [kind |-> "upsert",
               name |-> get_file_name(files[Len(files) + 1 - i].relative_file_path),
               content |-> get_formatted_content(files[Len(files) + 1 - i])]]

\* the calls made on the update builder, in order: .file(n).delete() for the
\* filtered names, then .file(README_FILE).with_content(..) and one
\* .file(name).with_content(..) per included file
build_batch(current, files) ==
    LET dels == SetToSeq(deleted_files_names(current, files))
    IN [i \in 1..Len(dels) |-> [kind |-> "delete", name |-> dels[i], content |-> EmptyStr]]
       \o <<[kind |-> "upsert", name |-> README_FILE, content |-> readme_content]>>
       \o [i \in 1..Len(files) |->
              [kind |-> "upsert",
               name |-> get_file_name(files[i].relative_file_path),
               content |-> get_formatted_content(files[i])]]

\* the gist after one update request: the last operation on a name decides
RECURSIVE apply_batch(_, _)
apply_batch(docs, ops) ==
    IF Len(ops) = 0 THEN docs
    ELSE apply_batch(IF ops[1].kind = "delete" THEN Remove(docs, {ops[1].name})
                     ELSE Put(docs, ops[1].name, ops[1].content),
                     Tail(ops))

push_start(root, d) ==
    /\ Quiet
    /\ cmd' = "push"
    /\ root_file' = root
    /\ dry_run' = d
    /\ ncmds' = ncmds + 1
    /\ fs0' = fs
    /\ remote0' = remote
    /\ commits' = 0
    /\ batch' = <<>>
    /\ fetched' = EmptyMap
    /\ tasks' = EmptyMap
    /\ LET r == get_included_files(fs, root, 1) IN
       /\ included' = r.files
       /\ IF r.err # "none"
          THEN pc' = "done" /\ outcome' = r.err /\ report' = <<>>
          ELSE IF d
          THEN /\ pc' = "done"
               /\ outcome' = "ok"
               /\ report' = <<[files |-> num_files(r.files), bytes |-> total_bytes(r.files)]>>
          ELSE pc' = "fetch" /\ outcome' = "none" /\ report' = <<>>
    /\ UNCHANGED <<fs, dirs, remote, update_only, compiled, lastPushed, prevPushed>>

\* faulty variant: the deletions go out as a request of their own, ahead of the upserts
push_fetch_deleting(ok) ==
    /\ cmd = "push"
    /\ pc = "fetch"
    /\ IF ok
       THEN /\ fetched' = remote
            /\ batch' = build_batch(remote, included)
            /\ remote' = Remove(remote, deleted_files_names(remote, included))
            /\ commits' = commits + 1
            /\ pc' = "send"
            /\ outcome' = outcome
       ELSE /\ pc' = "done"
            /\ outcome' = "RemoteUnavailable"
            /\ UNCHANGED <<fetched, batch, remote, commits>>
    /\ UNCHANGED <<root_file, fs, dirs, cmd, dry_run, update_only, included, tasks,
                   compiled, report, fs0, remote0, lastPushed, prevPushed, ncmds>>

\* gists().get(gist_id) answers: the builder is filled and the request sent
push_fetch(ok) ==
    /\ cmd = "push"
    /\ pc = "fetch"
    /\ IF ok
       THEN /\ fetched' = remote
            /\ batch' = build_batch(remote, included)
            /\ pc' = "send"
            /\ outcome' = outcome
       ELSE /\ pc' = "done"
            /\ outcome' = "RemoteUnavailable"
            /\ UNCHANGED <<fetched, batch>>
    /\ UNCHANGED <<root_file, fs, dirs, remote, cmd, dry_run, update_only, included, commits, tasks,
                   compiled, report, fs0, remote0, lastPushed, prevPushed, ncmds>>

\* the update request is answered: applied as one request, or refused
push_send(ok) ==
    /\ cmd = "push"
    /\ pc = "send"
    /\ pc' = "done"
    /\ IF ok
       THEN /\ remote' = apply_batch(remote, batch)
            /\ commits' = commits + 1
            /\ outcome' = "ok"
            /\ report' = <<[files |-> num_files(included), bytes |-> total_bytes(included)]>>
            /\ lastPushed' = included
            /\ prevPushed' = lastPushed
       ELSE /\ outcome' = "RemoteUnavailable"
            /\ UNCHANGED <<remote, commits, report, lastPushed, prevPushed>>
    /\ UNCHANGED <<root_file, fs, dirs, cmd, dry_run, update_only, included, fetched, batch, tasks,
                   compiled, fs0, remote0, ncmds>>

\* one command on a generated tree: compile, the walk, or a push to an empty gist
NextCompile ==
    \/ \E d \in BOOLEAN : compile_and_write(d)
    \/ walk
    \/ \E d \in BOOLEAN : cmd = "idle" /\ push_start(ROOT_FILE, d)
    \/ \E ok \in BOOLEAN : push_fetch(ok)
    \/ \E ok \in BOOLEAN : push_send(ok)

SpecCompile == InitCompile /\ [][NextCompile]_vars

(***************************************************************************)
(* pull_config.  join_all polls one future per document other than the     *)
(* readme; a future runs from one await to the next in one step.  The      *)
(* futures share the calling task, so a panic (unwrap, slice out of range) *)
(* in one of them unwinds pull_config and the others are dropped where     *)
(* they are.                                                               *)
(***************************************************************************)
NewTask == [pc |-> "start", path |-> EmptyStr, body |-> EmptyStr]

\* File::write at offset 0 of a file opened without truncate
overwrite(old, new) == new \o SubSeq(old, Len(new) + 1, Len(old))

\* OpenOptions::new().write(true).create(create).open(cfg_dir.join(path)):
\* "ok", or the error of the open
open_result(tree, ds, path, create) ==
    IF path = EmptyStr \/ path \in ds THEN "WriteFailure"
    ELSE IF path \in DOMAIN tree THEN "ok"
    ELSE IF create /\ parent_dir(path) \in ds \cup {EmptyStr} THEN "ok"
    ELSE "FileNotFound"

pull_start(d, u) ==
    /\ Quiet
    /\ cmd' = "pull"
    /\ pc' = "fetch"
    /\ dry_run' = d
    /\ update_only' = u
    /\ ncmds' = ncmds + 1
    /\ fs0' = fs
    /\ remote0' = remote
    /\ outcome' = "none"
    /\ report' = <<>>
    /\ tasks' = EmptyMap
    /\ fetched' = EmptyMap
    /\ included' = <<>>
    /\ batch' = <<>>
    /\ commits' = 0
    /\ UNCHANGED <<root_file, fs, dirs, remote, compiled, lastPushed, prevPushed>>

\* gists().get(gist_id) answers: one future per document but the readme
pull_fetch(ok) ==
    /\ cmd = "pull"
    /\ pc = "fetch"
    /\ IF ok
       THEN /\ fetched' = remote
            /\ tasks' = [n \in (DOMAIN remote) \ {README_FILE} |-> NewTask]
            /\ pc' = "join"
            /\ outcome' = outcome
       ELSE /\ pc' = "done"
            /\ outcome' = "RemoteUnavailable"
            /\ UNCHANGED <<fetched, tasks>>
    /\ UNCHANGED <<root_file, fs, dirs, remote, cmd, dry_run, update_only, included, batch, commits,
                   compiled, report, fs0, remote0, lastPushed, prevPushed, ncmds>>

\* first poll of the future of document n: header and body are split and
\* the open is started
task_parse(n) ==
    /\ cmd = "pull"
    /\ pc = "join"
    /\ tasks[n].pc = "start"
    /\ LET file_lines == lines(fetched[n])
           first == IF Len(file_lines) = 0 THEN n ELSE file_lines[1]
           rest == IF Len(file_lines) = 0 THEN <<>> ELSE Tail(file_lines)
       IN IF Len(first) < Len(HEADER_MARKER)
          THEN /\ tasks' = [tasks EXCEPT ![n].pc = "failed_parse"]
               /\ pc' = "done"
               /\ outcome' = "SliceOutOfRange"
          ELSE /\ tasks' = [tasks EXCEPT ![n] = [pc |-> "open",
                                                 path |-> SliceFrom(first, Len(HEADER_MARKER)),
                                                 body |-> join(rest, <<NL>>)]]
               /\ UNCHANGED <<pc, outcome>>
    /\ UNCHANGED <<root_file, fs, dirs, remote, cmd, dry_run, update_only, included, fetched, batch,
                   commits, compiled, report, fs0, remote0, lastPushed, prevPushed, ncmds>>

\* the open of document n is answered; a dry run logs and returns, otherwise
\* the write is started
task_open(n) ==
    /\ cmd = "pull"
    /\ pc = "join"
    /\ tasks[n].pc = "open"
    /\ LET t == tasks[n]
           res == open_result(fs, dirs, t.path, ~update_only)
       IN IF res = "ok"
          THEN /\ fs' = IF t.path \in DOMAIN fs THEN fs ELSE Put(fs, t.path, EmptyStr)
               /\ tasks' = [tasks EXCEPT ![n].pc = IF dry_run THEN "done" ELSE "write"]
               /\ report' = IF dry_run
                            THEN Append(report, [bytes |-> Len(t.body), path |-> t.path])
                            ELSE report
               /\ UNCHANGED <<pc, outcome>>
          ELSE /\ tasks' = [tasks EXCEPT ![n].pc = "failed_open"]
               /\ pc' = "done"
               /\ outcome' = res
               /\ UNCHANGED <<fs, report>>
    /\ UNCHANGED <<root_file, dirs, remote, cmd, dry_run, update_only, included, fetched, batch,
                   commits, compiled, fs0, remote0, lastPushed, prevPushed, ncmds>>

\* faulty variant: the size of the file after the write is logged
task_write_file_size(n) ==
    /\ cmd = "pull"
    /\ pc = "join"
    /\ tasks[n].pc = "write"
    /\ LET t == tasks[n] IN
       /\ fs' = Put(fs, t.path, overwrite(fs[t.path], t.body))
       /\ report' = Append(report, [bytes |-> Len(overwrite(fs[t.path], t.body)),
                                    path |-> t.path])
    /\ tasks' = [tasks EXCEPT ![n].pc = "done"]
    /\ UNCHANGED <<root_file, dirs, remote, cmd, pc, dry_run, update_only, outcome, included,
                   fetched, batch, commits, compiled, fs0, remote0, lastPushed, prevPushed,
                   ncmds>>

\* the write of document n is done
task_write(n) ==
    /\ cmd = "pull"
    /\ pc = "join"
    /\ tasks[n].pc = "write"
    /\ LET t == tasks[n] IN
       /\ fs' = Put(fs, t.path, overwrite(fs[t.path], t.body))
       /\ report' = Append(report, [bytes |-> Len(t.body), path |-> t.path])
    /\ tasks' = [tasks EXCEPT ![n].pc = "done"]
    /\ UNCHANGED <<root_file, dirs, remote, cmd, pc, dry_run, update_only, outcome, included, fetched,
                   batch, commits, compiled, fs0, remote0, lastPushed, prevPushed, ncmds>>

\* join_all is ready: every future has returned
pull_finish ==
    /\ cmd = "pull"
    /\ pc = "join"
    /\ \A n \in DOMAIN tasks : tasks[n].pc = "done"
    /\ pc' = "done"
    /\ outcome' = "ok"
    /\ UNCHANGED <<root_file, fs, dirs, remote, cmd, dry_run, update_only, included, fetched, batch,
                   commits, tasks, compiled, report, fs0, remote0, lastPushed, prevPushed,
                   ncmds>>

(***************************************************************************)
(* The user, between two commands: edits the tree, or points the next      *)
(* command at an empty directory.                                          *)
(***************************************************************************)
SyncTrees ==
    LET lf == [eol |-> <<NL>>, term |-> FALSE]
        lft == [eol |-> <<NL>>, term |-> TRUE]
    IN {TreeOf(File(<<Plain("x")>>), Absent, Absent, lf),
        TreeOf(File(<<ExecLine(NameB), Plain("x")>>), File(<<Plain("y")>>), Absent, lf),
        TreeOf(File(<<ExecLine(NameB), Plain("x")>>), File(<<Plain("y")>>), Absent, lft),
        TreeOf(File(<<ExecLine(NameB), ExecLine(NameDB)>>), File(<<Plain("y")>>),
               File(<<Plain("z")>>), lf),
        TreeOf(File(<<ExecLine(NameB), ExecLine(NameB)>>), File(<<Plain("y")>>), Absent, lf),
        TreeOf(File(<<ExecLine(NameB)>>), Absent, Absent, lf),
        TreeOf(File(<<ExecLine(NameA)>>), Absent, Absent, lf),
        Put(TreeOf(File(<<Plain("x")>>), Absent, Absent, lf), README_FILE, <<"x">>)}

\* the root files a push is pointed at: a.cfg, or a file of the tree that is
\* named as the readme is
RootFiles(tree) == {ROOT_FILE} \cup ({README_FILE} \cap DOMAIN tree)

Doc(path, body) == HEADER_MARKER \o path \o <<NL>> \o body
PathZ == <<"z", ".", "c", "f", "g">>
PathM == <<"m", ".", "c", "f", "g">>

PathK == <<"k", ".", "c", "f", "g">>
PathE == <<"e", ".", "c", "f", "g">>
PathN == <<"n", ".", "c", "f", "g">>
PathR == <<"r", ".", "c", "f", "g">>

\* gists the commands can meet: empty; left by an earlier push; a document
\* whose header names a sub-directory; a header shorter than the marker
RemoteInits ==
    {EmptyMap,
     Put(Put(EmptyMap, README_FILE, readme_content), PathZ, Doc(PathZ, <<"q">>)),
     Put(EmptyMap, PathB, Doc(PathDB, <<"w">>)),
     Put(Put(EmptyMap, PathM, <<"/", "/">>), PathZ, Doc(PathZ, <<"q">>))}

\* gists that no push has written: a readme that looks like a config
\* document beside two documents naming one path; an empty document beside
\* one whose first line lacks the marker
ForeignGists ==
    {Put(Put(Put(EmptyMap, README_FILE, Doc(PathR, <<"q">>)), PathA, Doc(PathA, <<"q">>)),
         PathK, Doc(PathA, <<"r", "s">>)),
     Put(Put(EmptyMap, PathE, EmptyStr), PathN, <<"-", "-", " ">> \o PathK \o <<NL, "q">>)}

ResetLocals ==
    /\ cmd' = "edit"
    /\ pc' = "done"
    /\ outcome' = "none"
    /\ included' = <<>>
    /\ fetched' = EmptyMap
    /\ batch' = <<>>
    /\ commits' = 0
    /\ tasks' = EmptyMap
    /\ report' = <<>>
    /\ dry_run' = FALSE
    /\ update_only' = FALSE
    /\ fs0' = fs'
    /\ remote0' = remote

edit_tree(t) ==
    /\ Quiet
    /\ cmd \notin {"idle", "edit"}
    /\ t # fs
    /\ fs' = t
    /\ dirs' = dirs \cup DirsOf(t)
    /\ ResetLocals
    /\ UNCHANGED <<root_file, remote, compiled, lastPushed, prevPushed, ncmds>>

empty_dir ==
    /\ Quiet
    /\ cmd \notin {"idle", "edit"}
    /\ fs' = EmptyMap
    /\ dirs' = {}
    /\ ResetLocals
    /\ UNCHANGED <<root_file, remote, compiled, lastPushed, prevPushed, ncmds>>

Init ==
    /\ fs \in SyncTrees
    /\ dirs = DirsOf(fs)
    /\ remote \in RemoteInits
    /\ InitCommon

Next ==
    \/ \E root \in RootFiles(fs), d \in BOOLEAN : push_start(root, d)
    \/ \E ok \in BOOLEAN : push_fetch(ok)
    \/ \E ok \in BOOLEAN : push_send(ok)
    \/ \E d \in BOOLEAN, u \in BOOLEAN : pull_start(d, u)
    \/ \E ok \in BOOLEAN : pull_fetch(ok)
    \/ \E n \in DOMAIN tasks : task_parse(n)
    \/ \E n \in DOMAIN tasks : task_open(n)
    \/ \E n \in DOMAIN tasks : task_write(n)
    \/ pull_finish
    \/ \E t \in SyncTrees : edit_tree(t)
    \/ empty_dir

Spec == Init /\ [][Next]_vars

\* pulls alone, against the gists that no push has written
InitPull ==
    /\ fs \in SyncTrees
    /\ dirs = DirsOf(fs)
    /\ remote \in ForeignGists
    /\ InitCommon

NextPull ==
    \/ \E d \in BOOLEAN, u \in BOOLEAN : pull_start(d, u)
    \/ \E ok \in BOOLEAN : pull_fetch(ok)
    \/ \E n \in DOMAIN tasks : task_parse(n)
    \/ \E n \in DOMAIN tasks : task_open(n)
    \/ \E n \in DOMAIN tasks : task_write(n)
    \/ pull_finish

SpecPull == InitPull /\ [][NextPull]_vars

(***************************************************************************)
(* The include relation of a tree, for stating the claims.                 *)
(***************************************************************************)
\* the files the include lines of p name (missing files have none)
Children(tree, p) ==
    IF p \in DOMAIN tree
    THEN {get_exec_file_path(exec_names(tree[p])[i]) : i \in 1..Len(exec_names(tree[p]))}
    ELSE {}

RECURSIVE Closure(_, _)
Closure(tree, S) ==
    LET T == S \cup UNION {Children(tree, p) : p \in S}
    IN IF T = S THEN S ELSE Closure(tree, T)

\* the files reachable from p through one include line or more
ReachFrom(tree, p) == Closure(tree, Children(tree, p))

Reachable(tree) == {ROOT_FILE} \cup ReachFrom(tree, ROOT_FILE)

Cyclic(tree) == \E p \in Reachable(tree) : p \in ReachFrom(tree, p)

\* an acyclic tree with every referenced file in place
Sound(tree) == ~Cyclic(tree) /\ Reachable(tree) \subseteq DOMAIN tree

\* depth-first preorder with an explicit stack of pending paths
RECURSIVE Preorder(_, _)
Preorder(tree, stack) ==
    IF Len(stack) = 0 THEN <<>>
    ELSE LET p == Head(stack)
             ns == exec_names(tree[p])
         IN <<[relative_file_path |-> p, file_contents |-> tree[p]]>>
            \o Preorder(tree, [i \in 1..Len(ns) |-> get_exec_file_path(ns[i])] \o Tail(stack))

\* the lines of p with every include line replaced by the lines of its file
\* (an empty file leaves one empty line)
RECURSIVE ExpandedLines(_, _)
ExpandedLines(tree, p) ==
    LET ls == lines(tree[p])
        at(i) == IF exec_capture(ls[i]) = EmptyStr THEN <<ls[i]>>
                 ELSE LET sub == ExpandedLines(tree, get_exec_file_path(exec_capture(ls[i])))
                      IN IF sub = <<>> THEN <<EmptyStr>> ELSE sub
    IN Concat([i \in 1..Len(ls) |-> at(i)])

\* a text with every "\r\n" turned into "\n" and without its final "\n"
RECURSIVE DropCr(_)
DropCr(s) ==
    IF Len(s) = 0 THEN s
    ELSE IF Len(s) >= 2 /\ s[1] = CR /\ s[2] = NL THEN DropCr(Tail(s))
    ELSE <<s[1]>> \o DropCr(Tail(s))

NormalisedText(s) ==
    LET t == DropCr(s) IN
    IF Len(t) > 0 /\ t[Len(t)] = NL THEN SubSeq(t, 1, Len(t) - 1) ELSE t

Paths(files) == {files[i].relative_file_path : i \in 1..Len(files)}

(***************************************************************************)
(* C4: when the include relation reachable from the root has a cycle,      *)
(* compile ends with CyclicInclude (it never recurses until the stack      *)
(* is exhausted).                                                          *)
(***************************************************************************)
C4_CycleDetected ==
    (cmd = "compile" /\ Cyclic(fs0)) => outcome = "CyclicInclude"

C6_CompileSubstitutes ==
    (cmd = "compile" /\ Sound(fs0)) =>
        /\ outcome = "ok"
        /\ compiled = compiled_document(join(ExpandedLines(fs0, ROOT_FILE), <<NL>>))
        /\ exec_names(fs0[ROOT_FILE]) = <<>> =>
              compiled = compiled_document(NormalisedText(fs0[ROOT_FILE]))

\* a compile that substituted a two-level include chain between plain lines
C6_Witness ==
    /\ cmd = "compile"
    /\ Sound(fs0)
    /\ outcome = "ok"
    /\ PathDB \in ReachFrom(fs0, PathB)
    /\ PathB \in Children(fs0, ROOT_FILE)
    /\ Len(lines(fs0[ROOT_FILE])) > Len(exec_names(fs0[ROOT_FILE]))

\* C6 as stated: in addition, a file without include lines compiles to its
\* own content, byte for byte
C6_AsStated ==
    (cmd = "compile" /\ Sound(fs0)) =>
        /\ outcome = "ok"
        /\ compiled = compiled_document(join(ExpandedLines(fs0, ROOT_FILE), <<NL>>))
        /\ exec_names(fs0[ROOT_FILE]) = <<>> => compiled = compiled_document(fs0[ROOT_FILE])

(***************************************************************************)
(* Claims about push and pull, checked under Spec.                         *)
(***************************************************************************)
Basenames(files) == {get_file_name(files[i].relative_file_path) : i \in 1..Len(files)}
Scheduled(ops, kind) == {ops[i].name : i \in {j \in 1..Len(ops) : ops[j].kind = kind}}
BatchBuilt == cmd = "push" /\ Len(batch) > 0

(***************************************************************************)
(* C1: the names a push schedules for deletion are exactly the names of    *)
(* the current gist that are the basename of no included file; no basename *)
(* of an included file is scheduled for deletion; README.md and one        *)
(* document per included basename are scheduled as upserts.                *)
(***************************************************************************)
C1_DeletesStaleOnly ==
    BatchBuilt =>
        /\ Scheduled(batch, "delete") = (DOMAIN fetched) \ Basenames(included)
        /\ Scheduled(batch, "delete") \cap Basenames(included) = {}
        /\ Scheduled(batch, "upsert") = {README_FILE} \cup Basenames(included)

(***************************************************************************)
(* C2: a push of an acyclic tree followed by a pull (no dry run, no        *)
(* update_only) into an empty directory ends with every file the Walker    *)
(* enumerated at its relative path, with its original bytes.  Stated for   *)
(* a gist that answers both commands and holds the documents of the push   *)
(* and no others.                                                          *)
(***************************************************************************)
C2_RoundTrip ==
    (/\ cmd = "pull" /\ pc = "done" /\ outcome # "RemoteUnavailable"
     /\ DOMAIN remote = {README_FILE} \cup Basenames(lastPushed)
     /\ ~dry_run /\ ~update_only
     /\ fs0 = EmptyMap /\ dirs = {}
     /\ Len(lastPushed) > 0)
    => /\ outcome = "ok"
       /\ \A i \in 1..Len(lastPushed) :
             /\ lastPushed[i].relative_file_path \in DOMAIN fs
             /\ fs[lastPushed[i].relative_file_path] = lastPushed[i].file_contents

(***************************************************************************)
(* C3: a push or a pull with dry_run set leaves the local tree and the     *)
(* gist as they were when the command started.                             *)
(***************************************************************************)
C3_DryRunChangesNothing ==
    (cmd \in {"push", "pull"} /\ dry_run) => (fs = fs0 /\ remote = remote0)

(***************************************************************************)
(* C7: with update_only, a document naming a path with no local file fails *)
(* with FileNotFound and creates nothing; without update_only the file is  *)
(* created when it is absent.                                              *)
(***************************************************************************)
Opened(t) == t.pc \in {"write", "done", "failed_open"}

C7_UpdateOnlyNeverCreates ==
    cmd = "pull" =>
        \A n \in DOMAIN tasks :
            (Opened(tasks[n]) /\ tasks[n].path \notin DOMAIN fs0) =>
                IF update_only
                THEN /\ tasks[n].pc = "failed_open"
                     /\ outcome = "FileNotFound"
                     /\ tasks[n].path \notin DOMAIN fs
                ELSE tasks[n].path \in DOMAIN fs

(***************************************************************************)
(* C8: when a document of a pull fails, every other document is still      *)
(* processed to the end before the command reports its status.             *)
(***************************************************************************)
C8_RunAllThenFail ==
    (cmd = "pull" /\ pc = "done") =>
        \A n \in DOMAIN tasks : tasks[n].pc \in {"done", "failed_parse", "failed_open"}

(***************************************************************************)
(* C9: after a successful push, a push of the tree with a file removed     *)
(* leaves a gist without that file's basename, holding len(included) + 1   *)
(* documents.                                                              *)
(***************************************************************************)
C9_DeletionPropagates ==
    (/\ cmd = "push" /\ pc = "done" /\ outcome = "ok" /\ ~dry_run
     /\ Basenames(prevPushed) \ Basenames(included) # {})
    => /\ (Basenames(prevPushed) \ Basenames(included)) \cap DOMAIN remote = {}
       /\ Cardinality(DOMAIN remote) = Len(included) + 1

(***************************************************************************)
(* C10: in a push the Walker has finished and the whole batch is built     *)
(* before the gist is changed; the gist is changed by one update request,  *)
(* and a push that fails (walk, fetch or update) leaves the gist as it     *)
(* was.                                                                    *)
(***************************************************************************)
C10_ComputeThenCommitOnce ==
    cmd = "push" =>
        /\ commits <= 1
        /\ pc # "done" => (commits = 0 /\ remote = remote0)
        /\ (pc = "done" /\ outcome # "ok") => (commits = 0 /\ remote = remote0)
        /\ (pc = "done" /\ outcome = "ok" /\ ~dry_run) => commits = 1
        /\ commits = 1 =>
              /\ pc = "done" /\ outcome = "ok" /\ ~dry_run
              /\ included = get_included_files(fs0, root_file, 1).files
              /\ fetched = remote0
              /\ batch = build_batch(fetched, included)
              /\ remote = apply_batch(remote0, batch)

\* a push whose single request deleted and upserted, changing the gist
C10_Witness ==
    /\ cmd = "push"
    /\ commits = 1
    /\ remote # remote0
    /\ Scheduled(batch, "delete") # {}
    /\ Len(included) > 1

(***************************************************************************)
(* C11: a document of a pull that is empty, or whose first line is shorter *)
(* than the marker or does not begin with "// ", fails with                *)
(* MalformedHeader (not with an out-of-range failure); no local path is    *)
(* derived or written from it.                                             *)
(***************************************************************************)
Malformed(content) ==
    Len(lines(content)) = 0 \/ ~StartsWith(lines(content)[1], HEADER_MARKER)

C11_MalformedHeaderRejected ==
    cmd = "pull" =>
        \A n \in DOMAIN tasks :
            (Malformed(fetched[n]) /\ tasks[n].pc # "start") =>
                /\ tasks[n].pc = "failed_parse"
                /\ outcome = "MalformedHeader"
                /\ tasks[n].path = EmptyStr

(***************************************************************************)
(* C12: after a pull that was not a dry run has succeeded, the local file  *)
(* of every document (the only document naming that path) holds exactly    *)
(* the document's body, whatever the file held before the pull.            *)
(***************************************************************************)
SolePath(n) == \A m \in DOMAIN tasks : tasks[m].path = tasks[n].path => m = n

C12_PullReplacesContent ==
    (cmd = "pull" /\ pc = "done" /\ outcome = "ok" /\ ~dry_run) =>
        \A n \in DOMAIN tasks :
            SolePath(n) =>
                /\ tasks[n].path \in DOMAIN fs
                /\ fs[tasks[n].path] = tasks[n].body

(***************************************************************************)
(* C13: when a file reachable through include lines from the root is       *)
(* missing, the walk, the compile and the push fail with FileNotFound and  *)
(* leave no partial result: no file list, no compiled text, compiled.cfg   *)
(* and the tree as they were, no request built or sent to the gist.        *)
(***************************************************************************)
Missing(tree) == ~(Reachable(tree) \subseteq DOMAIN tree)

C13_AllOrNothing ==
    (cmd \in {"walk", "compile", "push"} /\ Missing(fs0)) =>
        /\ pc = "done"
        /\ outcome = "FileNotFound"
        /\ included = <<>>
        /\ compiled = EmptyStr
        /\ report = <<>>
        /\ fs = fs0
        /\ remote = remote0
        /\ batch = <<>>
        /\ commits = 0

(***************************************************************************)
(* C14: the per-document tasks of a pull share no mutable state: no local  *)
(* path is opened or written by more than one task, whatever set of        *)
(* documents was fetched.                                                  *)
(***************************************************************************)
HasOpened(t) == t.pc \in {"write", "done"}

C14_TasksShareNoPath ==
    cmd = "pull" =>
        \A m, n \in DOMAIN tasks :
            (m # n /\ HasOpened(tasks[m]) /\ HasOpened(tasks[n])) =>
                tasks[m].path # tasks[n].path

(***************************************************************************)
(* C15: the request of every push holds README.md with the generation      *)
(* summary and nothing else as its content, and a pull makes no task for   *)
(* README.md and creates or writes no local file but the ones its tasks    *)
(* name, whatever README.md contains.                                      *)
(***************************************************************************)
\* the operation the request carries for a name: the last one put on the builder
LastOp(ops, name) ==
    ops[CHOOSE i \in 1..Len(ops) :
            ops[i].name = name /\ \A j \in (i + 1)..Len(ops) : ops[j].name # name]

C15_ReadmeReserved ==
    /\ (cmd = "push" /\ BatchBuilt) =>
           /\ \E i \in 1..Len(batch) : batch[i].name = README_FILE
           /\ LastOp(batch, README_FILE).kind = "upsert"
           /\ LastOp(batch, README_FILE).content = readme_content
    /\ cmd = "pull" =>
           /\ README_FILE \notin DOMAIN tasks
           /\ \A p \in DOMAIN fs :
                  (p \notin DOMAIN fs0 \/ fs[p] # fs0[p]) =>
                      \E n \in DOMAIN tasks : tasks[n].path = p

(***************************************************************************)
(* C16: what a command reports does not depend on dry_run.  A push that    *)
(* ends well reports the number of the included files plus one and the     *)
(* bytes of their contents plus the readme's; a pull reports, once for     *)
(* each document it has dealt with, the bytes of the document's body and   *)
(* the path of its header line.  Both are fixed by the tree and the gist   *)
(* the command started from.                                               *)
(***************************************************************************)
\* the first line of a document, without its line ending
HeaderOf(n) ==
    LET c == fetched[n]
        i == IndexOf(c, NL)
        h == IF i = 0 THEN c ELSE SubSeq(c, 1, i - 1)
    IN IF Len(c) = 0 THEN n
       ELSE IF i > 1 /\ c[i - 1] = CR THEN SubSeq(h, 1, Len(h) - 1) ELSE h

\* the bytes of what follows the first line, every line ending but the last
\* counted as one byte and the last as none
BodyBytes(n) ==
    LET c == fetched[n]
        i == IndexOf(c, NL)
        crlf == {j \in (i + 1)..(Len(c) - 1) : c[j] = CR /\ c[j + 1] = NL}
    IN IF i = 0 \/ i = Len(c) THEN 0
       ELSE Len(c) - i - Cardinality(crlf) - (IF c[Len(c)] = NL THEN 1 ELSE 0)

PullLine(n) ==
    [bytes |-> BodyBytes(n), path |-> SliceFrom(HeaderOf(n), Len(HEADER_MARKER))]

PushLine ==
    LET w == get_included_files(fs0, root_file, 1).files
    IN [files |-> Cardinality(DOMAIN w) + 1,
        bytes |-> Len(Concat([i \in DOMAIN w |-> w[i].file_contents])) + Len(readme_content)]

C16_DryRunReportsTheSame ==
    /\ (cmd = "push" /\ pc = "done" /\ outcome = "ok") => report = <<PushLine>>
    /\ cmd = "pull" =>
           LET dealt == {n \in DOMAIN tasks : tasks[n].pc = "done"}
               expected == [n \in dealt |-> PullLine(n)]
           IN /\ Len(report) = Cardinality(dealt)
              /\ \A n \in dealt : \E i \in 1..Len(report) : report[i] = expected[n]
              /\ \A i \in 1..Len(report) : \E n \in dealt : report[i] = expected[n]

\* a pull that wrote over a longer file has ended and reported the body's bytes
C16_Witness ==
    /\ cmd = "pull" /\ pc = "done" /\ outcome = "ok" /\ ~dry_run
    /\ \E n \in DOMAIN tasks :
           /\ tasks[n].path \in DOMAIN fs0
           /\ Len(fs0[tasks[n].path]) > Len(tasks[n].body)
           /\ \E i \in 1..Len(report) : report[i] = PullLine(n)

(***************************************************************************)
(* C17: when the Walker's output holds files of different relative paths   *)
(* and one basename, the request of the push carries one entry under that  *)
(* basename, an upsert with the formatted content of the later file; after *)
(* the push the gist holds that content under the basename, and a pull     *)
(* that follows derives the later file's path from the document.           *)
(***************************************************************************)
\* the request as the store receives it: one entry for each name
request_files(ops) ==
    [n \in {ops[i].name : i \in 1..Len(ops)} |-> LastOp(ops, n)]

\* the last of the files that has the basename b
Later(files, b) ==
    files[CHOOSE i \in 1..Len(files) :
              /\ get_file_name(files[i].relative_file_path) = b
              /\ \A j \in (i + 1)..Len(files) :
                     get_file_name(files[j].relative_file_path) # b]

Parsed(t) == t.pc \notin {"start", "failed_parse"}

C17_SameBasenameLaterWins ==
    /\ (cmd = "push" /\ BatchBuilt) =>
           /\ DOMAIN request_files(batch) = Basenames(included) \cup {README_FILE}
           /\ \A b \in Basenames(included) :
                  request_files(batch)[b] =
                      [kind |-> "upsert", name |-> b,
                       content |-> get_formatted_content(Later(included, b))]
    /\ (cmd = "push" /\ pc = "done" /\ outcome = "ok" /\ ~dry_run) =>
           \A b \in Basenames(included) :
               /\ b \in DOMAIN remote
               /\ remote[b] = get_formatted_content(Later(included, b))
    /\ (cmd = "pull" /\ lastPushed # <<>>) =>
           \A n \in DOMAIN tasks \cap Basenames(lastPushed) :
               Parsed(tasks[n]) =>
                   tasks[n].path = Later(lastPushed, n).relative_file_path

\* b.cfg and d/b.cfg were pushed and the pull has derived d/b.cfg, the later
\* of the two, from the one document b.cfg
C17_Witness ==
    /\ cmd = "pull"
    /\ {PathB, PathDB} \subseteq Paths(lastPushed)
    /\ Cardinality(Basenames(lastPushed)) < Cardinality(Paths(lastPushed))
    /\ PathB \in DOMAIN tasks
    /\ tasks[PathB].pc = "done"
    /\ tasks[PathB].path = PathDB
    /\ \A n \in DOMAIN tasks : tasks[n].path # PathB

(***************************************************************************)
(* C18: the Walker does not deduplicate.  On an acyclic tree with every    *)
(* file in place a file is listed once for every include line that reaches *)
(* it during the traversal, each time followed by its whole subtree; the   *)
(* file count a push reports, the length of the list plus one, is then at  *)
(* least, and can be more than, the number of documents of its request.    *)
(***************************************************************************)
\* the include lines of q that name p
Mult(tree, q, p) ==
    Cardinality({i \in 1..Len(exec_names(tree[q])) :
                     get_exec_file_path(exec_names(tree[q])[i]) = p})

\* the times the traversal from the root reaches p
RECURSIVE Occ(_, _)
RECURSIVE OccFrom(_, _, _)
OccFrom(tree, qs, p) ==
    IF qs = {} THEN 0
    ELSE LET q == CHOOSE x \in qs : TRUE
         IN Occ(tree, q) * Mult(tree, q, p) + OccFrom(tree, qs \ {q}, p)

Occ(tree, p) ==
    (IF p = ROOT_FILE THEN 1 ELSE 0)
        + OccFrom(tree, {q \in Reachable(tree) : p \in Children(tree, q)}, p)

CountOf(files, p) ==
    Cardinality({i \in 1..Len(files) : files[i].relative_file_path = p})

Documents(files) == Basenames(files) \cup {README_FILE}

C18_WalkerListsEveryVisit ==
    (cmd \in {"walk", "push"} /\ pc = "done" /\ outcome = "ok" /\ Sound(fs0)) =>
        /\ \A p \in Reachable(fs0) : CountOf(included, p) = Occ(fs0, p)
        /\ \A i \in 1..Len(included) :
               LET sub == Preorder(fs0, <<included[i].relative_file_path>>)
               IN /\ i + Len(sub) - 1 <= Len(included)
                  /\ SubSeq(included, i, i + Len(sub) - 1) = sub
        /\ cmd = "push" =>
               /\ report[1].files = Len(included) + 1
               /\ report[1].files >= Cardinality(Documents(included))

\* a push has reported more files than its request has documents
C18_Witness ==
    /\ cmd = "push" /\ pc = "done" /\ outcome = "ok" /\ Sound(fs0)
    /\ \E p \in Reachable(fs0) : CountOf(included, p) >= 2
    /\ report[1].files > Cardinality(Documents(included))

====
